---------------------------- MODULE Spec2Model ----------------------------
(***************************************************************************)
(* Model of src/app/page.tsx: the vCard builder (escapeValue,              *)
(* parsePhoneNumbers, buildVCard), the live-updating Home component that   *)
(* derives the vCard with useMemo, and the button-driven Home component    *)
(* with generateQR.                                                        *)
(*                                                                         *)
(* A JavaScript string is a sequence of one-character strings, so that     *)
(* escaping, splitting, trimming and joining are computed character by     *)
(* character, as the code computes them.                                   *)
(***************************************************************************)
EXTENDS Naturals, Sequences, FiniteSets

VARIABLES
    \* live-updating Home component: useState cells (page.tsx 222-233)
    fullName, email, phoneInput, address, addressType, company, jobTitle,
    birthday, website, notes, showMore, lastCopiedValue,
    \* useMemo cell of the live page: the dependency list of the last
    \* computation and the value it produced (page.tsx 236-262)
    vCard, vCardDeps,
    \* what the last render put on screen (page.tsx 544-581)
    view,
    \* environment of the live page: whether navigator.clipboard exists, the
    \* writeText promises not yet settled, the system clipboard, the number of
    \* console.error calls, the file that the last event handler handed to the
    \* browser for download (none when it handed over no file)
    clipboardApi, pending, clipboard, consoleErrors, download,
    \* button-driven Home component: useState cells name, phone, address,
    \* birthday, qrValue (page.tsx 7-11) and the number of alert() calls
    basic, alerts,
    \* a call of one of the pure functions: its argument and its result
    arg, ret

liveVars == <<fullName, email, phoneInput, address, addressType, company,
              jobTitle, birthday, website, notes, showMore, lastCopiedValue,
              vCard, vCardDeps, view>>
envVars == <<clipboardApi, pending, clipboard, consoleErrors, download>>
basicVars == <<basic, alerts>>
callVars == <<arg, ret>>
vars == <<liveVars, envVars, basicVars, callVars>>

---------------------------------------------------------------------------
\* Bounds of the model.

\* longest argument given to escapeValue
MaxLen == 3
\* longest free-text phone input given to parsePhoneNumbers
MaxPhoneLen == 4
\* longest list of phones given to buildVCard directly
MaxPhones == 2
\* most input fields of the live page filled at a time
MaxFilled == 1
\* most writeText promises of the live page unsettled at a time
MaxPending == 1
\* most console.error calls of the live page
MaxErrors == 1
\* most alert() calls of the button-driven page
MaxAlerts == 1

---------------------------------------------------------------------------
\* Characters and strings.

BS == "\\"
NL == "\n"
SC == ";"
CM == ","
EmptyString == <<>>

\* all strings over alphabet of length at most n
RECURSIVE StringsUpTo(_, _)
StringsUpTo(alphabet, n) ==
    IF n = 0 THEN {EmptyString}
    ELSE LET shorter == StringsUpTo(alphabet, n - 1)
         IN  shorter \cup {Append(s, c) : s \in {t \in shorter : Len(t) = n - 1},
                                          c \in alphabet}

\* String.prototype.replace(/ch/g, rep) for a one-character pattern
RECURSIVE ReplaceAll(_, _, _)
ReplaceAll(value, ch, rep) ==
    IF value = EmptyString THEN EmptyString
    ELSE (IF Head(value) = ch THEN rep ELSE <<Head(value)>>)
         \o ReplaceAll(Tail(value), ch, rep)

\* Array.prototype.join(sep)
RECURSIVE Join(_, _)
Join(lines, sep) ==
    IF lines = <<>> THEN EmptyString
    ELSE IF Len(lines) = 1 THEN lines[1]
    ELSE lines[1] \o sep \o Join(Tail(lines), sep)

\* the backslash replacement left out
escapeValueNoBackslash(value) ==
    ReplaceAll(ReplaceAll(ReplaceAll(value, NL, <<BS, "n">>),
                          SC, <<BS, SC>>),
               CM, <<BS, CM>>)

escapeValue(value) ==
    ReplaceAll(ReplaceAll(ReplaceAll(ReplaceAll(value, BS, <<BS, BS>>),
                                     NL, <<BS, "n">>),
                          SC, <<BS, SC>>),
               CM, <<BS, CM>>)


---------------------------------------------------------------------------
\* parsePhoneNumbers (page.tsx 150-154).

\* the characters of the class [\n,;]
Separators == {NL, CM, SC}
\* the white space characters that String.prototype.trim() strips, as far
\* as the strings of the model hold them
WhiteSpace == {" ", "\t", "\r", NL}

\* the index after the run of separators that starts at i
RECURSIVE SkipSeparators(_, _)
SkipSeparators(value, i) ==
    IF i <= Len(value) /\ value[i] \in Separators
    THEN SkipSeparators(value, i + 1)
    ELSE i

\* String.prototype.split(/[\n,;]+/): the pieces between the maximal runs of
\* separators; a run at the start or at the end leaves an empty piece there,
\* and the empty string splits into one empty piece
RECURSIVE SplitFrom(_, _, _, _)
SplitFrom(value, i, piece, pieces) ==
    IF i > Len(value) THEN Append(pieces, piece)
    ELSE IF value[i] \in Separators
         THEN SplitFrom(value, SkipSeparators(value, i), EmptyString,
                        Append(pieces, piece))
         ELSE SplitFrom(value, i + 1, Append(piece, value[i]), pieces)

split(value) == SplitFrom(value, 1, EmptyString, <<>>)

RECURSIVE trimStart(_)
trimStart(entry) ==
    IF entry # EmptyString /\ Head(entry) \in WhiteSpace
    THEN trimStart(Tail(entry))
    ELSE entry

RECURSIVE trimEnd(_)
trimEnd(entry) ==
    IF entry # EmptyString /\ entry[Len(entry)] \in WhiteSpace
    THEN trimEnd(SubSeq(entry, 1, Len(entry) - 1))
    ELSE entry

\* String.prototype.trim()
trim(entry) == trimEnd(trimStart(entry))

\* Boolean(entry) of a string
IsTruthy(entry) == entry # EmptyString

\* the entries are not trimmed
parsePhoneNumbersNoTrim(value) ==
    SelectSeq(split(value), IsTruthy)

\* the empty entries are kept
parsePhoneNumbersNoFilter(value) ==
    LET entries == split(value)
    IN  [i \in 1..Len(entries) |-> trim(entries[i])]

parsePhoneNumbers(value) ==
    LET entries == split(value)
        trimmed == [i \in 1..Len(entries) |-> trim(entries[i])]
    IN  SelectSeq(trimmed, IsTruthy)

---------------------------------------------------------------------------
\* buildVCard (page.tsx 156-208).

AddressTypes == {"home", "work", "other"}

\* String.prototype.toUpperCase() of an address type
toUpperCase(type) ==
    CASE type = "home" -> <<"H", "O", "M", "E">>
      [] type = "work" -> <<"W", "O", "R", "K">>
      [] type = "other" -> <<"O", "T", "H", "E", "R">>

BeginLine == <<"B", "E", "G", "I", "N", ":", "V", "C", "A", "R", "D">>
VersionLine == <<"V", "E", "R", "S", "I", "O", "N", ":", "3", ".", "0">>
EndLine == <<"E", "N", "D", ":", "V", "C", "A", "R", "D">>
FnName == <<"F", "N">>
OrgName == <<"O", "R", "G">>
TitleName == <<"T", "I", "T", "L", "E">>
TelName == <<"T", "E", "L", ";", "T", "Y", "P", "E", "=", "C", "E", "L", "L">>
EmailName == <<"E", "M", "A", "I", "L", ";", "T", "Y", "P", "E", "=", "I", "N", "T", "E", "R", "N", "E", "T">>
AdrName == <<"A", "D", "R">>
TypeParam == <<";", "T", "Y", "P", "E", "=">>
BdayName == <<"B", "D", "A", "Y">>
UrlName == <<"U", "R", "L">>
NoteName == <<"N", "O", "T", "E">>
Colon == <<":">>
AdrLead == <<";", ";">>
AdrTrail == <<";", ";", ";", ";">>

\* if (field) { lines.push(line) }
PushIf(lines, field, line) ==
    IF IsTruthy(field) THEN Append(lines, line) ELSE lines

\* `ADR${typePrefix}` (page.tsx 188-190)
AdrProperty(type) ==
    IF type = "other" THEN AdrName ELSE AdrName \o TypeParam \o toUpperCase(type)

\* the EMAIL line pushed before the TEL lines
vCardLinesEmailBeforeTel(args) ==
    LET l0 == <<BeginLine, VersionLine>>
        l1 == PushIf(l0, args.fullName,
                     FnName \o Colon \o escapeValue(args.fullName))
        l2 == PushIf(l1, args.company,
                     OrgName \o Colon \o escapeValue(args.company))
        l3 == PushIf(l2, args.jobTitle,
                     TitleName \o Colon \o escapeValue(args.jobTitle))
        l4 == PushIf(l3, args.email,
                     EmailName \o Colon \o escapeValue(args.email))
        l5 == l4 \o [i \in 1..Len(args.phones) |->
                        TelName \o Colon \o escapeValue(args.phones[i])]
        l6 == PushIf(l5, args.address,
                     AdrProperty(args.addressType) \o Colon \o AdrLead
                         \o escapeValue(args.address) \o AdrTrail)
        l7 == PushIf(l6, args.birthday, BdayName \o Colon \o args.birthday)
        l8 == PushIf(l7, args.website,
                     UrlName \o Colon \o escapeValue(args.website))
        l9 == PushIf(l8, args.notes,
                     NoteName \o Colon \o escapeValue(args.notes))
    IN  l9

\* the array `lines` when the pushes are done (page.tsx 168-200)
vCardLines(args) ==
    LET l0 == <<BeginLine, VersionLine>>
        l1 == PushIf(l0, args.fullName,
                     FnName \o Colon \o escapeValue(args.fullName))
        l2 == PushIf(l1, args.company,
                     OrgName \o Colon \o escapeValue(args.company))
        l3 == PushIf(l2, args.jobTitle,
                     TitleName \o Colon \o escapeValue(args.jobTitle))
        l4 == l3 \o [i \in 1..Len(args.phones) |->
                        TelName \o Colon \o escapeValue(args.phones[i])]
        l5 == PushIf(l4, args.email,
                     EmailName \o Colon \o escapeValue(args.email))
        l6 == PushIf(l5, args.address,
                     AdrProperty(args.addressType) \o Colon \o AdrLead
                         \o escapeValue(args.address) \o AdrTrail)
        l7 == PushIf(l6, args.birthday, BdayName \o Colon \o args.birthday)
        l8 == PushIf(l7, args.website,
                     UrlName \o Colon \o escapeValue(args.website))
        l9 == PushIf(l8, args.notes,
                     NoteName \o Colon \o escapeValue(args.notes))
    IN  l9

\* the check for an empty record left out
buildVCardNoEmptyCheck(args) ==
    Join(Append(vCardLines(args), EndLine), <<NL>>)

buildVCard(args) ==
    LET lines == vCardLines(args)
    IN  IF Len(lines) = 2 THEN EmptyString
        ELSE Join(Append(lines, EndLine), <<NL>>)

\* the argument of buildVCard in the useMemo callback (page.tsx 238-249)
MemoArgs(form) ==
    [fullName |-> form.fullName, email |-> form.email,
     phones |-> parsePhoneNumbers(form.phoneInput),
     address |-> form.address, addressType |-> form.addressType,
     company |-> form.company, jobTitle |-> form.jobTitle,
     birthday |-> form.birthday, website |-> form.website,
     notes |-> form.notes]

\* the useMemo callback (page.tsx 237-249)
computeVCard(form) == buildVCard(MemoArgs(form))

---------------------------------------------------------------------------
\* The live-updating Home component: state after the first render
\* (page.tsx 221-265, 544-581).

\* the state cells the useMemo callback reads (page.tsx 238-249)
Form(fn, em, ph, ad, at, co, jt, bd, ws, nt) ==
    [fullName |-> fn, email |-> em, phoneInput |-> ph, address |-> ad,
     addressType |-> at, company |-> co, jobTitle |-> jt, birthday |-> bd,
     website |-> ws, notes |-> nt]

\* their useState initial values (page.tsx 222-231)
InitialForm ==
    Form(EmptyString, EmptyString, EmptyString, EmptyString, "home",
         EmptyString, EmptyString, EmptyString, EmptyString, EmptyString)

\* the dependency list without the address type
DepListNoAddressType(form) ==
    <<form.fullName, form.email, form.phoneInput, form.address,
      form.company, form.jobTitle, form.birthday, form.website, form.notes>>

\* the dependency list of useMemo (page.tsx 250-261)
DepList(form) ==
    <<form.fullName, form.email, form.phoneInput, form.address,
      form.addressType, form.company, form.jobTitle, form.birthday,
      form.website, form.notes>>

\* a value of type string | null: no element for null, one for a string
Null == <<>>
Some(value) == <<value>>

\* const hasContactInfo = Boolean(vCard) (page.tsx 264)
hasContactInfo(card) == IsTruthy(card)

\* const hasCopiedCurrent = hasContactInfo && lastCopiedValue === vCard
\* (page.tsx 265)
hasCopiedCurrent(card, lastCopied) ==
    hasContactInfo(card) /\ lastCopied = Some(card)

\* what the JSX shows of the state (page.tsx 462-465, 544-560, 566-581):
\* the value given to <QRCode>, if it is rendered; the preview textarea; the
\* label of the copy button; whether the copy and download buttons are
\* disabled; whether the extra fields are shown
Render(card, lastCopied, more) ==
    [qrCode |-> IF hasContactInfo(card) THEN Some(card) ELSE Null,
     preview |-> card,
     copyLabel |-> IF hasCopiedCurrent(card, lastCopied)
                   THEN "Copied!" ELSE "Copy vCard",
     disabled |-> ~hasContactInfo(card),
     extraShown |-> more]

LiveInit ==
    /\ fullName = EmptyString
    /\ email = EmptyString
    /\ phoneInput = EmptyString
    /\ address = EmptyString
    /\ addressType = "home"
    /\ company = EmptyString
    /\ jobTitle = EmptyString
    /\ birthday = EmptyString
    /\ website = EmptyString
    /\ notes = EmptyString
    /\ showMore = FALSE
    /\ lastCopiedValue = Null
    /\ vCardDeps = DepList(InitialForm)
    /\ vCard = computeVCard(InitialForm)
    /\ view = Render(computeVCard(InitialForm), Null, FALSE)

\* the environment of the live page before any event
EnvInit ==
    /\ pending = <<>>
    /\ clipboard = Null
    /\ consoleErrors = 0
    /\ download = Null

\* the button-driven Home component after construction (page.tsx 7-11)
BasicInit ==
    /\ basic = [name |-> EmptyString, phone |-> EmptyString,
                address |-> EmptyString, birthday |-> EmptyString,
                qrValue |-> EmptyString]
    /\ alerts = 0

\* no pure function has been called
NotCalled == <<>>
Returned(value) == <<value>>

---------------------------------------------------------------------------
\* Calls of escapeValue on every string up to MaxLen.

\* backslash, the letter n, the three other special characters, an ordinary
\* character
Alphabet == {BS, "n", NL, SC, CM, "a"}

EscapeInit ==
    /\ LiveInit /\ EnvInit /\ clipboardApi = TRUE /\ BasicInit
    /\ arg \in StringsUpTo(Alphabet, MaxLen)
    /\ ret = NotCalled

CallEscapeValue ==
    /\ ret = NotCalled
    /\ ret' = Returned(escapeValue(arg))
    /\ UNCHANGED <<arg, liveVars, envVars, basicVars>>

EscapeNext == CallEscapeValue

SpecEscape == EscapeInit /\ [][EscapeNext]_vars

\* the left-to-right vCard decoder: backslash-backslash is a backslash,
\* backslash-n a newline, backslash-semicolon a semicolon, backslash-comma a
\* comma; any other character stands for itself
RECURSIVE Decode(_)
Decode(text) ==
    IF text = EmptyString THEN EmptyString
    ELSE IF Head(text) = BS /\ Len(text) >= 2
              /\ text[2] \in {BS, "n", SC, CM}
         THEN <<IF text[2] = "n" THEN NL ELSE text[2]>>
              \o Decode(SubSeq(text, 3, Len(text)))
         ELSE <<Head(text)>> \o Decode(Tail(text))

\* C5: decoding reverses escapeValue: for every string v over backslash, n,
\* newline, semicolon, comma and an ordinary character, the decoder applied
\* to escapeValue(v) gives v back.
C5_DecodeReversesEscape ==
    ret # NotCalled => Decode(ret[1]) = arg

\* escapeValue has been applied to a literal backslash followed by n and a
\* real newline
C5_Witness ==
    /\ ret # NotCalled
    /\ arg = <<BS, "n", NL>>
    /\ ret[1] = <<BS, BS, "n", BS, "n">>

---------------------------------------------------------------------------
\* Calls of buildVCard on records whose every field is empty or filled.

\* a text with an ordinary character and every special character
SpecialText == <<"a", BS, "n", NL, SC, CM>>
\* a birthday as <input type="date"> gives it, and one typed where the
\* browser shows the date field as a one-line text field
IsoDate == <<"2", "0", "0", "0", "-", "0", "1", "-", "0", "2">>
TypedDate == <<"1", SC, "2">>

TextSamples == {EmptyString, SpecialText}
BirthdaySamples == {EmptyString, IsoDate, TypedDate}
PhoneSamples == {<<"1">>, <<"2", SC>>}

RECURSIVE ListsUpTo(_, _)
ListsUpTo(elements, n) ==
    IF n = 0 THEN {<<>>}
    ELSE LET shorter == ListsUpTo(elements, n - 1)
         IN  shorter \cup {Append(l, e) : l \in {t \in shorter : Len(t) = n - 1},
                                          e \in elements}

\* the values of the interface BuildVCardArgs (page.tsx 130-141) tried
BuildArgs ==
    [fullName : TextSamples, email : TextSamples,
     phones : ListsUpTo(PhoneSamples, MaxPhones),
     address : TextSamples, addressType : AddressTypes,
     company : TextSamples, jobTitle : TextSamples,
     birthday : BirthdaySamples, website : TextSamples,
     notes : TextSamples]

BuildInit ==
    /\ LiveInit /\ EnvInit /\ clipboardApi = TRUE /\ BasicInit
    /\ arg \in BuildArgs
    /\ ret = NotCalled

CallBuildVCard ==
    /\ ret = NotCalled
    /\ ret' = Returned(buildVCard(arg))
    /\ UNCHANGED <<arg, liveVars, envVars, basicVars>>

BuildNext == CallBuildVCard

SpecBuild == BuildInit /\ [][BuildNext]_vars

\* the text fields of a BuildVCardArgs record are all empty
NoTextField(args) ==
    /\ args.fullName = EmptyString /\ args.email = EmptyString
    /\ args.address = EmptyString /\ args.company = EmptyString
    /\ args.jobTitle = EmptyString /\ args.birthday = EmptyString
    /\ args.website = EmptyString /\ args.notes = EmptyString

\* the elements of a set of numbers in increasing order
Sorted(numbers) ==
    [k \in 1..Cardinality(numbers) |->
        CHOOSE p \in numbers : Cardinality({q \in numbers : q <= p}) = k]

\* String.prototype.split("\n") of a text: the reader's view of the lines
SplitLines(text) ==
    LET at == Sorted({i \in 1..Len(text) : text[i] = NL})
        first(k) == IF k = 1 THEN 1 ELSE at[k - 1] + 1
        last(k) == IF k > Len(at) THEN Len(text) ELSE at[k] - 1
    IN  [k \in 1..(Len(at) + 1) |-> SubSeq(text, first(k), last(k))]

\* a text begins with a prefix
StartsWith(text, prefix) ==
    /\ Len(text) >= Len(prefix)
    /\ SubSeq(text, 1, Len(prefix)) = prefix

\* the index of the first colon of a line (one past its end if it has none)
ColonAt(line) ==
    IF \E i \in 1..Len(line) : line[i] = ":"
    THEN CHOOSE i \in 1..Len(line) :
             line[i] = ":" /\ \A j \in 1..(i - 1) : line[j] # ":"
    ELSE Len(line) + 1

\* the property name of a line: what stands before its first colon
PropertyName(line) == SubSeq(line, 1, ColonAt(line) - 1)
\* what stands after the first colon of a line
AfterColon(line) == SubSeq(line, ColonAt(line) + 1, Len(line))

\* the lines of a vCard text between VERSION and END
PropertyLines(text) ==
    LET lines == SplitLines(text)
    IN  SubSeq(lines, 3, Len(lines) - 1)

\* C1: with every text field empty and no phone, for each address type,
\* buildVCard returns the empty string, not the bare BEGIN/VERSION/END frame.
C1_EmptyRecordGivesEmptyString ==
    (ret # NotCalled /\ NoTextField(arg) /\ arg.phones = <<>>)
        => ret[1] = EmptyString

\* buildVCard has been called on the empty record with address type other
C1_Witness ==
    /\ ret = Returned(EmptyString)
    /\ NoTextField(arg) /\ arg.phones = <<>>
    /\ arg.addressType = "other"

\* the property names the claim expects, in its order, for a record
ExpectedNames(args) ==
    (IF args.fullName # EmptyString THEN <<FnName>> ELSE <<>>)
    \o (IF args.company # EmptyString THEN <<OrgName>> ELSE <<>>)
    \o (IF args.jobTitle # EmptyString THEN <<TitleName>> ELSE <<>>)
    \o [i \in 1..Len(args.phones) |-> TelName]
    \o (IF args.email # EmptyString THEN <<EmailName>> ELSE <<>>)
    \o (IF args.address # EmptyString
        THEN <<CASE args.addressType = "home" ->
                      AdrName \o TypeParam \o <<"H", "O", "M", "E">>
                 [] args.addressType = "work" ->
                      AdrName \o TypeParam \o <<"W", "O", "R", "K">>
                 [] args.addressType = "other" -> AdrName>>
        ELSE <<>>)
    \o (IF args.birthday # EmptyString THEN <<BdayName>> ELSE <<>>)
    \o (IF args.website # EmptyString THEN <<UrlName>> ELSE <<>>)
    \o (IF args.notes # EmptyString THEN <<NoteName>> ELSE <<>>)

RECURSIVE WellEscaped(_)
WellEscaped(text) ==
    IF text = EmptyString THEN TRUE
    ELSE IF Head(text) = BS
         THEN /\ Len(text) >= 2
              /\ text[2] \in {BS, "n", SC, CM}
              /\ WellEscaped(SubSeq(text, 3, Len(text)))
         ELSE /\ Head(text) \notin {NL, SC, CM}
              /\ WellEscaped(Tail(text))

\* the field value as a property line carries it: what follows the colon,
\* without the empty components ;; and ;;;; that frame the street of an ADR
ValuePart(line) ==
    LET rest == AfterColon(line)
    IN  IF StartsWith(PropertyName(line), AdrName)
        THEN SubSeq(rest, Len(AdrLead) + 1, Len(rest) - Len(AdrTrail))
        ELSE rest

\* C4: in the output of buildVCard every field value (full name, company,
\* job title, each phone, email, address, birthday, website, notes) stands
\* in escaped form: its backslashes, newlines, semicolons and commas appear
\* only as backslash-backslash, backslash-n, backslash-semicolon and
\* backslash-comma.
C4_EveryValueEscaped ==
    ret # NotCalled =>
        LET props == PropertyLines(ret[1])
        IN  \A i \in 1..Len(props) : WellEscaped(ValuePart(props[i]))

\* the same for every property line but BDAY
C4_EveryValueButBirthdayEscaped ==
    ret # NotCalled =>
        LET props == PropertyLines(ret[1])
        IN  \A i \in 1..Len(props) :
                PropertyName(props[i]) # BdayName
                    => WellEscaped(ValuePart(props[i]))

---------------------------------------------------------------------------
\* Calls of the useMemo callback on forms with at most one field filled.

\* the one-line <input> fields: the browser keeps line breaks out of them
LineFields == {"fullName", "email", "address", "company", "jobTitle",
               "birthday", "website"}
\* the fields the form takes text in
InputFields == LineFields \cup {"phoneInput", "notes"}

\* what can be typed into a one-line field, into the notes textarea and into
\* the phone textarea
LineAlphabet == {BS, "n", SC, CM, "a", " "}
PhoneAlphabet == {NL, CM, SC, " ", "1", "2"}

TypedValues(field) ==
    IF field = "phoneInput" THEN StringsUpTo(PhoneAlphabet, MaxPhoneLen)
    ELSE IF field = "notes" THEN StringsUpTo(Alphabet, MaxLen)
    ELSE StringsUpTo(LineAlphabet, MaxLen)

\* the forms tried: one input field holds a typed value, the others are
\* empty, the address type is any
MemoInit ==
    /\ LiveInit /\ EnvInit /\ clipboardApi = TRUE /\ BasicInit
    /\ \E f \in InputFields, t \in AddressTypes :
           \E v \in TypedValues(f) :
               arg = [InitialForm EXCEPT ![f] = v, !.addressType = t]
    /\ ret = NotCalled

CallComputeVCard ==
    /\ ret = NotCalled
    /\ ret' = Returned(computeVCard(arg))
    /\ UNCHANGED <<arg, liveVars, envVars, basicVars>>

MemoNext == CallComputeVCard

SpecMemo == MemoInit /\ [][MemoNext]_vars

\* the input fields of a form that are not empty
FilledFields(form) == {f \in InputFields : form[f] # EmptyString}

\* the property name that corresponds to an input field
NameOfField(field, type) ==
    CASE field = "fullName" -> FnName
      [] field = "company" -> OrgName
      [] field = "jobTitle" -> TitleName
      [] field = "phoneInput" -> TelName
      [] field = "email" -> EmailName
      [] field = "address" ->
            (CASE type = "home" -> AdrName \o TypeParam \o <<"H", "O", "M", "E">>
               [] type = "work" -> AdrName \o TypeParam \o <<"W", "O", "R", "K">>
               [] type = "other" -> AdrName)
      [] field = "birthday" -> BdayName
      [] field = "website" -> UrlName
      [] field = "notes" -> NoteName

\* a text is the frame around exactly one property line of the given name
FrameAroundOne(text, name) ==
    LET lines == SplitLines(text)
    IN  /\ Len(lines) = 4
        /\ lines[1] = BeginLine
        /\ lines[2] = VersionLine
        /\ PropertyName(lines[3]) = name
        /\ lines[4] = EndLine

\* the maximal runs of characters between separators, as pairs <<first,
\* last>> of positions, in input order
RunsOf(value) ==
    LET isSep(i) == value[i] \in Separators
        starts == {i \in 1..Len(value) :
                      ~isSep(i) /\ (i = 1 \/ isSep(i - 1))}
        ends == {j \in 1..Len(value) :
                      ~isSep(j) /\ (j = Len(value) \/ isSep(j + 1))}
        from == Sorted(starts)
        to == Sorted(ends)
    IN  [k \in 1..Len(from) |-> SubSeq(value, from[k], to[k])]

\* a text without the white space around it
Stripped(text) ==
    LET inked == {i \in 1..Len(text) : text[i] \notin WhiteSpace}
    IN  IF inked = {} THEN EmptyString
        ELSE SubSeq(text,
                    CHOOSE i \in inked : \A j \in inked : i <= j,
                    CHOOSE i \in inked : \A j \in inked : j <= i)

\* the numbers the claim expects of a phone input: its runs, stripped, the
\* empty ones dropped
ExpectedNumbers(value) ==
    LET runs == RunsOf(value)
        isNumber(text) == text # EmptyString
    IN  SelectSeq([k \in 1..Len(runs) |-> Stripped(runs[k])], isNumber)

\* C2 as stated: a form with exactly one input field filled, the phone
\* field included, gives the frame around exactly one property line, the
\* one of that field: four lines in all.
C2_OneFieldOneLine ==
    (ret # NotCalled /\ Cardinality(FilledFields(arg)) = 1) =>
        \A f \in FilledFields(arg) :
            FrameAroundOne(ret[1], NameOfField(f, arg.addressType))

\* C2 amended: a form with exactly one input field filled gives, if the
\* field is not the phone field, the frame around exactly one property
\* line, the one of that field; if it is the phone field, the empty string
\* when the field holds no number, and else the frame around one
\* TEL;TYPE=CELL line per number and no other property line.
C2_OneFieldOneLineButPhones ==
    (ret # NotCalled /\ Cardinality(FilledFields(arg)) = 1) =>
        \A f \in FilledFields(arg) :
            IF f # "phoneInput"
            THEN FrameAroundOne(ret[1], NameOfField(f, arg.addressType))
            ELSE LET numbers == ExpectedNumbers(arg.phoneInput)
                     lines == SplitLines(ret[1])
                     props == PropertyLines(ret[1])
                 IN  IF numbers = <<>> THEN ret[1] = EmptyString
                     ELSE /\ Len(lines) = Len(numbers) + 3
                          /\ lines[1] = BeginLine
                          /\ lines[2] = VersionLine
                          /\ lines[Len(lines)] = EndLine
                          /\ \A i \in 1..Len(props) :
                                 PropertyName(props[i]) = TelName

\* the callback has run on a form whose only filled field is the phone
\* field, holding two numbers: two TEL lines
C2_Witness ==
    /\ ret # NotCalled
    /\ FilledFields(arg) = {"phoneInput"}
    /\ arg.phoneInput = <<"1", CM, " ", "2">>
    /\ Len(SplitLines(ret[1])) = 5

\* C6: parsePhoneNumbers returns, in input order, the maximal runs of
\* characters between separators (newline, comma, semicolon), stripped of
\* the white space around them, the empty ones dropped; so no number is
\* empty, begins or ends with white space or holds a separator; and the
\* vCard has exactly one TEL;TYPE=CELL line per number, in that order,
\* carrying that number (none when the input holds no number).
C6_PhonesAreTrimmedRuns ==
    (ret # NotCalled /\ FilledFields(arg) \subseteq {"phoneInput"}) =>
        LET numbers == parsePhoneNumbers(arg.phoneInput)
            props == PropertyLines(ret[1])
        IN  /\ numbers = ExpectedNumbers(arg.phoneInput)
            /\ \A i \in 1..Len(numbers) :
                   /\ numbers[i] # EmptyString
                   /\ numbers[i][1] \notin WhiteSpace
                   /\ numbers[i][Len(numbers[i])] \notin WhiteSpace
                   /\ \A j \in 1..Len(numbers[i]) :
                          numbers[i][j] \notin Separators
            /\ Len(props) = Len(numbers)
            /\ \A i \in 1..Len(props) :
                   /\ PropertyName(props[i]) = TelName
                   /\ Decode(AfterColon(props[i])) = numbers[i]

\* the callback has run on a phone input with a separator run, white space
\* around a number and a trailing separator
C6_Witness ==
    /\ ret # NotCalled
    /\ arg.phoneInput = <<" ", "1", SC, CM>>
    /\ parsePhoneNumbers(arg.phoneInput) = <<<<"1">>>>
    /\ Len(PropertyLines(ret[1])) = 1

---------------------------------------------------------------------------
\* The live-updating Home component: its event handlers, each followed by
\* the render that React runs after the state updates of the handler.

\* the state cells the useMemo callback reads, as they are now
CurrentForm ==
    Form(fullName, email, phoneInput, address, addressType, company,
         jobTitle, birthday, website, notes)

\* the render after a handler has left the cells as in form, more and
\* lastCopied: useMemo runs its callback if a dependency differs from the
\* last computation's and keeps its value if none does (page.tsx 236-262);
\* the JSX is built from the result (page.tsx 264-265, 363-610)
Rerender(form, more, lastCopied) ==
    LET card == IF DepList(form) # vCardDeps
                THEN computeVCard(form) ELSE vCard
    IN  /\ vCardDeps' = DepList(form)
        /\ vCard' = card
        /\ view' = Render(card, lastCopied, more)

\* what the model types into a field of the live page
Typed(field) ==
    CASE field = "phoneInput" -> {EmptyString, <<" ">>, <<"1", SC, "2">>}
      [] field = "notes" -> {EmptyString, <<"a", NL>>}
      [] field = "birthday" -> {EmptyString, IsoDate}
      [] OTHER -> {EmptyString, <<"a">>}

\* the model fills at most MaxFilled input fields at a time
WithinFilled(form) == Cardinality(FilledFields(form)) <= MaxFilled

\* an event handler that hands no file to the browser and leaves the
\* clipboard, the promises and the console alone
NoEffect ==
    /\ download' = Null
    /\ UNCHANGED <<clipboardApi, pending, clipboard, consoleErrors>>

\* onChange of the full name input (page.tsx 395)
setFullName ==
    \E v \in Typed("fullName") :
        LET form == [CurrentForm EXCEPT !.fullName = v]
        IN  /\ WithinFilled(form)
            /\ fullName' = v
            /\ Rerender(form, showMore, lastCopiedValue)
            /\ NoEffect
            /\ UNCHANGED <<email, phoneInput, address, addressType, company,
                           jobTitle, birthday, website, notes, showMore,
                           lastCopiedValue, basicVars, callVars>>

\* onChange of the email input (page.tsx 407)
setEmail ==
    \E v \in Typed("email") :
        LET form == [CurrentForm EXCEPT !.email = v]
        IN  /\ WithinFilled(form)
            /\ email' = v
            /\ Rerender(form, showMore, lastCopiedValue)
            /\ NoEffect
            /\ UNCHANGED <<fullName, phoneInput, address, addressType,
                           company, jobTitle, birthday, website, notes,
                           showMore, lastCopiedValue, basicVars, callVars>>

\* onChange of the phone numbers textarea (page.tsx 418)
setPhoneInput ==
    \E v \in Typed("phoneInput") :
        LET form == [CurrentForm EXCEPT !.phoneInput = v]
        IN  /\ WithinFilled(form)
            /\ phoneInput' = v
            /\ Rerender(form, showMore, lastCopiedValue)
            /\ NoEffect
            /\ UNCHANGED <<fullName, email, address, addressType, company,
                           jobTitle, birthday, website, notes, showMore,
                           lastCopiedValue, basicVars, callVars>>

\* onChange of the address input (page.tsx 434)
setAddress ==
    \E v \in Typed("address") :
        LET form == [CurrentForm EXCEPT !.address = v]
        IN  /\ WithinFilled(form)
            /\ address' = v
            /\ Rerender(form, showMore, lastCopiedValue)
            /\ NoEffect
            /\ UNCHANGED <<fullName, email, phoneInput, addressType, company,
                           jobTitle, birthday, website, notes, showMore,
                           lastCopiedValue, basicVars, callVars>>

\* onChange of the address type select (page.tsx 439-441)
setAddressType ==
    \E t \in AddressTypes :
        LET form == [CurrentForm EXCEPT !.addressType = t]
        IN  /\ addressType' = t
            /\ Rerender(form, showMore, lastCopiedValue)
            /\ NoEffect
            /\ UNCHANGED <<fullName, email, phoneInput, address, company,
                           jobTitle, birthday, website, notes, showMore,
                           lastCopiedValue, basicVars, callVars>>

\* onChange of the company input (page.tsx 476)
setCompany ==
    \E v \in Typed("company") :
        LET form == [CurrentForm EXCEPT !.company = v]
        IN  /\ WithinFilled(form)
            /\ company' = v
            /\ Rerender(form, showMore, lastCopiedValue)
            /\ NoEffect
            /\ UNCHANGED <<fullName, email, phoneInput, address, addressType,
                           jobTitle, birthday, website, notes, showMore,
                           lastCopiedValue, basicVars, callVars>>

\* onChange of the job title input (page.tsx 487)
setJobTitle ==
    \E v \in Typed("jobTitle") :
        LET form == [CurrentForm EXCEPT !.jobTitle = v]
        IN  /\ WithinFilled(form)
            /\ jobTitle' = v
            /\ Rerender(form, showMore, lastCopiedValue)
            /\ NoEffect
            /\ UNCHANGED <<fullName, email, phoneInput, address, addressType,
                           company, birthday, website, notes, showMore,
                           lastCopiedValue, basicVars, callVars>>

\* onChange of the website input (page.tsx 501)
setWebsite ==
    \E v \in Typed("website") :
        LET form == [CurrentForm EXCEPT !.website = v]
        IN  /\ WithinFilled(form)
            /\ website' = v
            /\ Rerender(form, showMore, lastCopiedValue)
            /\ NoEffect
            /\ UNCHANGED <<fullName, email, phoneInput, address, addressType,
                           company, jobTitle, birthday, notes, showMore,
                           lastCopiedValue, basicVars, callVars>>

\* onChange of the birthday input (page.tsx 512)
setBirthday ==
    \E v \in Typed("birthday") :
        LET form == [CurrentForm EXCEPT !.birthday = v]
        IN  /\ WithinFilled(form)
            /\ birthday' = v
            /\ Rerender(form, showMore, lastCopiedValue)
            /\ NoEffect
            /\ UNCHANGED <<fullName, email, phoneInput, address, addressType,
                           company, jobTitle, website, notes, showMore,
                           lastCopiedValue, basicVars, callVars>>

\* onChange of the notes textarea (page.tsx 525)
setNotes ==
    \E v \in Typed("notes") :
        LET form == [CurrentForm EXCEPT !.notes = v]
        IN  /\ WithinFilled(form)
            /\ notes' = v
            /\ Rerender(form, showMore, lastCopiedValue)
            /\ NoEffect
            /\ UNCHANGED <<fullName, email, phoneInput, address, addressType,
                           company, jobTitle, birthday, website, showMore,
                           lastCopiedValue, basicVars, callVars>>

\* onClick of the show-more toggle: setShowMore((previous) => !previous)
\* (page.tsx 460)
setShowMore ==
    /\ showMore' = ~showMore
    /\ Rerender(CurrentForm, ~showMore, lastCopiedValue)
    /\ NoEffect
    /\ UNCHANGED <<fullName, email, phoneInput, address, addressType, company,
                   jobTitle, birthday, website, notes, lastCopiedValue,
                   basicVars, callVars>>

\* a sequence without its i-th element
Without(queue, i) ==
    SubSeq(queue, 1, i - 1) \o SubSeq(queue, i + 1, Len(queue))

formCells == <<fullName, email, phoneInput, address, addressType, company,
               jobTitle, birthday, website, notes>>

\* handleCopy up to its await (page.tsx 267-273): nothing happens without a
\* vCard; else writeText is called with the vCard of the last render and
\* its promise is awaited.  Where navigator.clipboard is undefined the
\* optional call gives undefined, the await ends at once and the handler
\* goes on to setLastCopiedValue (page.tsx 274) before any other event.
\* (typeof navigator is never "undefined" in an event handler)
handleCopy ==
    /\ download' = Null
    /\ UNCHANGED <<formCells, showMore, clipboardApi, clipboard,
                   consoleErrors, basicVars, callVars>>
    /\ IF ~hasContactInfo(vCard)
       THEN UNCHANGED <<lastCopiedValue, vCard, vCardDeps, view, pending>>
       ELSE IF clipboardApi
       THEN /\ Len(pending) < MaxPending
            /\ pending' = Append(pending, vCard)
            /\ UNCHANGED <<lastCopiedValue, vCard, vCardDeps, view>>
       ELSE /\ lastCopiedValue' = Some(vCard)
            /\ Rerender(CurrentForm, showMore, Some(vCard))
            /\ UNCHANGED pending

\* a writeText promise is fulfilled: the text is on the clipboard and the
\* handler goes on with the vCard it was called with (page.tsx 274)
writeTextFulfilled ==
    \E i \in 1..Len(pending) :
        /\ clipboard' = Some(pending[i])
        /\ pending' = Without(pending, i)
        /\ lastCopiedValue' = Some(pending[i])
        /\ Rerender(CurrentForm, showMore, Some(pending[i]))
        /\ download' = Null
        /\ UNCHANGED <<formCells, showMore, clipboardApi, consoleErrors,
                       basicVars, callVars>>

\* a rejected writeText that also marks the vCard as copied
writeTextRejectedMarksCopied ==
    \E i \in 1..Len(pending) :
        /\ consoleErrors < MaxErrors
        /\ consoleErrors' = consoleErrors + 1
        /\ pending' = Without(pending, i)
        /\ lastCopiedValue' = Some(pending[i])
        /\ Rerender(CurrentForm, showMore, Some(pending[i]))
        /\ download' = Null
        /\ UNCHANGED <<formCells, showMore, clipboardApi, clipboard,
                       basicVars, callVars>>

\* a writeText promise is rejected: the catch clause logs the error
\* (page.tsx 275-277)
writeTextRejected ==
    \E i \in 1..Len(pending) :
        /\ consoleErrors < MaxErrors
        /\ consoleErrors' = consoleErrors + 1
        /\ pending' = Without(pending, i)
        /\ download' = Null
        /\ UNCHANGED <<liveVars, clipboardApi, clipboard, basicVars,
                       callVars>>

\* resetForm that leaves the address type as it is
resetFormKeepsAddressType ==
    /\ fullName' = EmptyString
    /\ email' = EmptyString
    /\ phoneInput' = EmptyString
    /\ address' = EmptyString
    /\ company' = EmptyString
    /\ jobTitle' = EmptyString
    /\ birthday' = EmptyString
    /\ website' = EmptyString
    /\ notes' = EmptyString
    /\ showMore' = FALSE
    /\ lastCopiedValue' = Null
    /\ Rerender([InitialForm EXCEPT !.addressType = addressType], FALSE, Null)
    /\ NoEffect
    /\ UNCHANGED <<addressType, basicVars, callVars>>

\* resetForm (page.tsx 280-293)
resetForm ==
    /\ fullName' = EmptyString
    /\ email' = EmptyString
    /\ phoneInput' = EmptyString
    /\ address' = EmptyString
    /\ addressType' = "home"
    /\ company' = EmptyString
    /\ jobTitle' = EmptyString
    /\ birthday' = EmptyString
    /\ website' = EmptyString
    /\ notes' = EmptyString
    /\ showMore' = FALSE
    /\ lastCopiedValue' = Null
    /\ Rerender(InitialForm, FALSE, Null)
    /\ NoEffect
    /\ UNCHANGED <<basicVars, callVars>>

ContactName == <<"c", "o", "n", "t", "a", "c", "t">>
VcfSuffix == <<".", "v", "c", "f">>
PngSuffix == <<"-", "q", "r", ".", "p", "n", "g">>

\* `${fullName || "contact"}` (page.tsx 305, 347)
FileStem == IF IsTruthy(fullName) THEN fullName ELSE ContactName

\* handleDownloadVCard (page.tsx 295-312): a Blob of the vCard of the last
\* render goes to the browser as <full name or contact>.vcf
handleDownloadVCard ==
    /\ download' = IF ~hasContactInfo(vCard) THEN Null
                   ELSE Some([name |-> FileStem \o VcfSuffix,
                              type |-> "text/vcard",
                              content |-> vCard])
    /\ UNCHANGED <<liveVars, clipboardApi, pending, clipboard, consoleErrors,
                   basicVars, callVars>>

\* handleDownloadQr (page.tsx 314-361): the <svg> that <QRCode> rendered is
\* cloned and loaded into an image; when it loads it goes to the browser as
\* <full name or contact>-qr.png, when it fails nothing does.  The image
\* callbacks read only what the handler captured, so the model lets them run
\* with the handler.  The content of the file is given as the text the
\* rendered QR code encodes.
handleDownloadQr ==
    /\ UNCHANGED <<liveVars, clipboardApi, pending, clipboard, consoleErrors,
                   basicVars, callVars>>
    /\ IF ~hasContactInfo(vCard) \/ view.qrCode = Null
       THEN download' = Null
       ELSE \/ download' = Some([name |-> FileStem \o PngSuffix,
                                 type |-> "image/png",
                                 content |-> view.qrCode[1]])
            \/ download' = Null

LiveNext ==
    \/ setFullName
    \/ setEmail
    \/ setPhoneInput
    \/ setAddress
    \/ setAddressType
    \/ setCompany
    \/ setJobTitle
    \/ setWebsite
    \/ setBirthday
    \/ setNotes
    \/ setShowMore
    \/ handleCopy
    \/ writeTextFulfilled
    \/ writeTextRejected
    \/ resetForm
    \/ handleDownloadVCard
    \/ handleDownloadQr

\* the page is served with or without navigator.clipboard (it is undefined
\* outside a secure context)
SpecLiveInit ==
    /\ LiveInit /\ EnvInit /\ BasicInit
    /\ clipboardApi \in BOOLEAN
    /\ arg = EmptyString
    /\ ret = NotCalled

SpecLive == SpecLiveInit /\ [][LiveNext]_vars

C9_FailedCopyOnlyLogged ==
    [][/\ consoleErrors' # consoleErrors =>
              /\ UNCHANGED <<formCells, showMore, lastCopiedValue, vCard,
                             view, clipboard>>
              /\ Len(pending') < Len(pending)
       /\ (handleCopy /\ ~hasContactInfo(vCard)) =>
              UNCHANGED <<formCells, showMore, lastCopiedValue, vCard, view,
                          pending, clipboard, consoleErrors>>
      ]_vars

\* a copy was rejected and logged, and the vCard on screen is not marked as
\* copied
C9_Witness ==
    /\ consoleErrors > 0
    /\ hasContactInfo(vCard)
    /\ lastCopiedValue = Null
    /\ view.copyLabel = "Copy vCard"
    /\ pending = <<>>

\* C10: right after resetForm every text field is empty, the address type
\* is home, showMore is false, lastCopiedValue is null, the vCard is empty,
\* no QR code is shown and the copy button is not labelled Copied!: the
\* component is as it was after construction.
C10_ResetGivesInitialState ==
    [][resetForm =>
          /\ fullName' = EmptyString /\ email' = EmptyString
          /\ phoneInput' = EmptyString /\ address' = EmptyString
          /\ addressType' = "home" /\ company' = EmptyString
          /\ jobTitle' = EmptyString /\ birthday' = EmptyString
          /\ website' = EmptyString /\ notes' = EmptyString
          /\ showMore' = FALSE
          /\ lastCopiedValue' = Null
          /\ vCard' = EmptyString
          /\ view' = [qrCode |-> Null, preview |-> EmptyString,
                      copyLabel |-> "Copy vCard", disabled |-> TRUE,
                      extraShown |-> FALSE]
      ]_vars

\* the form is as constructed although a vCard was copied to the clipboard
\* before: it has been reset since
C10_Witness ==
    /\ clipboard # Null
    /\ lastCopiedValue = Null
    /\ CurrentForm = InitialForm
    /\ showMore = FALSE
    /\ vCard = EmptyString
    /\ view.qrCode = Null

\* the copy button is labelled Copied! (hasCopiedCurrent of the last render)
CopiedShown == view.copyLabel = "Copied!"

\* the vCard in use is not empty and is the text the last fulfilled
\* writeText of handleCopy put on the clipboard
CurrentIsWritten == hasContactInfo(vCard) /\ clipboard = Some(vCard)

\* C11: in every reachable state of the live page, whatever the order of
\* field edits, resets, copy clicks and the settling of the copies (fulfilled,
\* rejected, or no navigator.clipboard at all), the Copied! label is shown
\* only when the current vCard is not empty and is the text most recently
\* written to the clipboard by handleCopy; it is never shown for a vCard that
\* was not written.
C11_CopiedOnlyIfWritten == CopiedShown => CurrentIsWritten

\* the part of C11 that the code keeps: where navigator.clipboard exists the
\* Copied! label is shown only for a vCard that is on the clipboard
C11_CopiedOnlyIfWrittenWithApi ==
    clipboardApi => (CopiedShown => CurrentIsWritten)

\* Copied! is shown for a vCard that a fulfilled writeText put on the
\* clipboard, while a later copy is still unsettled
C11_ShownAfterWrite ==
    /\ clipboardApi
    /\ CopiedShown
    /\ CurrentIsWritten
    /\ pending # <<>>

\* Copied! is shown although nothing was ever written: the page has no
\* navigator.clipboard
C11_ShownWithoutWrite ==
    /\ ~clipboardApi
    /\ CopiedShown
    /\ clipboard = Null

---------------------------------------------------------------------------
\* The button-driven Home component (page.tsx 6-100).

\* what the model types into a field of the button-driven page
BasicTyped(field) ==
    IF field = "birthday" THEN {EmptyString, IsoDate}
    ELSE IF field = "phone" THEN {EmptyString, <<"1">>}
    ELSE {EmptyString, <<"a">>}

\* onChange of the name input (page.tsx 51)
setName ==
    \E v \in BasicTyped("name") :
        /\ basic' = [basic EXCEPT !.name = v]
        /\ UNCHANGED <<alerts, liveVars, envVars, callVars>>

\* onChange of the phone input (page.tsx 58)
setPhone ==
    \E v \in BasicTyped("phone") :
        /\ basic' = [basic EXCEPT !.phone = v]
        /\ UNCHANGED <<alerts, liveVars, envVars, callVars>>

\* onChange of the address input of the button-driven page (page.tsx 65)
setBasicAddress ==
    \E v \in BasicTyped("address") :
        /\ basic' = [basic EXCEPT !.address = v]
        /\ UNCHANGED <<alerts, liveVars, envVars, callVars>>

\* onChange of the birthday input of the button-driven page (page.tsx 71)
setBasicBirthday ==
    \E v \in BasicTyped("birthday") :
        /\ basic' = [basic EXCEPT !.birthday = v]
        /\ UNCHANGED <<alerts, liveVars, envVars, callVars>>

\* the template literal of generateQR (page.tsx 19-25)
BasicTemplate(name, phone, addr, bday) ==
    <<"B", "E", "G", "I", "N", ":", "V", "C", "A", "R", "D">> \o <<NL>>
    \o <<"V", "E", "R", "S", "I", "O", "N", ":", "3", ".", "0">> \o <<NL>>
    \o <<"F", "N", ":">> \o name \o <<NL>>
    \o <<"T", "E", "L", ":">> \o phone \o <<NL>>
    \o <<"A", "D", "R", ":", ";", ";">> \o addr \o <<";", ";", ";", ";">> \o <<NL>>
    \o <<"B", "D", "A", "Y", ":">> \o bday \o <<NL>>
    \o <<"E", "N", "D", ":", "V", "C", "A", "R", "D">>

\* generateQR without its check for an empty form
generateQRNoGuard ==
    /\ basic' = [basic EXCEPT !.qrValue =
                    trim(ReplaceAll(BasicTemplate(basic.name, basic.phone,
                                                  basic.address,
                                                  basic.birthday),
                                    NL, <<NL>>))]
    /\ UNCHANGED <<alerts, liveVars, envVars, callVars>>

\* generateQR (page.tsx 13-28)
generateQR ==
    IF ~IsTruthy(basic.name) /\ ~IsTruthy(basic.phone)
       /\ ~IsTruthy(basic.address) /\ ~IsTruthy(basic.birthday)
    THEN /\ alerts < MaxAlerts
         /\ alerts' = alerts + 1
         /\ UNCHANGED <<basic, liveVars, envVars, callVars>>
    ELSE /\ basic' = [basic EXCEPT !.qrValue =
                         trim(ReplaceAll(BasicTemplate(basic.name, basic.phone,
                                                       basic.address,
                                                       basic.birthday),
                                         NL, <<NL>>))]
         /\ UNCHANGED <<alerts, liveVars, envVars, callVars>>

BasicNext ==
    \/ setName
    \/ setPhone
    \/ setBasicAddress
    \/ setBasicBirthday
    \/ generateQR

SpecBasicInit ==
    /\ LiveInit /\ EnvInit /\ clipboardApi = TRUE /\ BasicInit
    /\ arg = EmptyString
    /\ ret = NotCalled

SpecBasic == SpecBasicInit /\ [][BasicNext]_vars

\* the four fields of the button-driven page are empty
BasicEmpty(b) ==
    /\ b.name = EmptyString /\ b.phone = EmptyString
    /\ b.address = EmptyString /\ b.birthday = EmptyString

\* the vCard the button-driven page shows for a record, line by line
BasicCard(name, phone, addr, bday) ==
    Join(<<BeginLine, VersionLine,
           FnName \o Colon \o name,
           <<"T", "E", "L", ":">> \o phone,
           AdrName \o Colon \o AdrLead \o addr \o AdrTrail,
           BdayName \o Colon \o bday,
           EndLine>>, <<NL>>)

\* C8: generateQR on an empty form raises the alert and leaves qrValue and
\* the fields as they are; qrValue changes only in a step taken with a
\* non-empty field; so qrValue is always empty or the vCard of a record with
\* at least one non-empty field.
C8_EmptyFormIsRejected ==
    /\ [](\/ basic.qrValue = EmptyString
          \/ \E n \in BasicTyped("name"), p \in BasicTyped("phone"),
                a \in BasicTyped("address"), b \in BasicTyped("birthday") :
                 /\ ~(n = EmptyString /\ p = EmptyString
                      /\ a = EmptyString /\ b = EmptyString)
                 /\ basic.qrValue = BasicCard(n, p, a, b))
    /\ [][/\ (generateQR /\ BasicEmpty(basic)) =>
                 (alerts' = alerts + 1 /\ basic' = basic)
          /\ basic'.qrValue # basic.qrValue =>
                 (~BasicEmpty(basic) /\ alerts' = alerts)
         ]_vars

\* a QR code was generated, the fields were emptied and a further click
\* was rejected: the alert was raised and the QR code is still there
C8_Witness ==
    /\ alerts > 0
    /\ BasicEmpty(basic)
    /\ basic.qrValue # EmptyString

===========================================================================
